---- MODULE Spec2Model ----
(***************************************************************************)
(* The IndoT5 paraphraser service of src/app.py: the process start-up      *)
(* (the __main__ block, uvicorn importing "app:app", the lifespan running  *)
(* load_model with its primary and fallback attempts), and the request      *)
(* handlers GET /health, POST /paraphrase and POST /batch-paraphrase with   *)
(* the request validation FastAPI derives from ParaphraseRequest.           *)
(*                                                                          *)
(* The handlers are "async def" functions without any await: each runs to   *)
(* completion on the event loop, so each is one atomic action.  load_model  *)
(* is modelled step by step, because every step of it may raise.            *)
(***************************************************************************)
EXTENDS Integers, Sequences, FiniteSets, TLC

\* ------------------------------------------------------------- bounds
\* The wall clock (time.time(), in whole seconds) runs from 0 to MaxClock.
MaxClock == 2
\* A batch body holds at most MaxBatch requests.
MaxBatch == 2

\* ---------------------------------------------------- program constants
MinTextLen == 1
MaxTextLen == 1000
MinMaxLength == 10
MaxMaxLength == 512
MinNumSeq == 1
MaxNumSeq == 5
\* Status codes: the handlers' HTTPException codes and FastAPI's defaults.
StatusOK == 200
StatusUnprocessable == 422
StatusInternal == 500
StatusUnavailable == 503
\* Pieces the tokenizer makes of the prompt's fixed parts, "paraphrase: " in
\* front of the text and " </s>" behind it (plus the EOS the tokenizer adds).
PrefixPieces == 3
SuffixPieces == 2

None == "None"
Unset == "unset"
PrimaryName == "Wikidepia/IndoT5-base-paraphrase"
FallbackName == "indonesian-nlp/indot5-base"

VARIABLES
    pc,            \* position of the process: main, uvicorn_run, load_model, startup_done, serving
    attempt,       \* load_model: "primary" or "fallback"
    step,          \* load_model: index of the next step of the attempt
    loadResult,    \* load_model's return value: "none" until it returns, then "True" / "False"
    model,         \* global model of the served module
    tokenizer,     \* global tokenizer of the served module
    device,        \* global device of the served module
    startup_time,  \* attribute startup_time of the app object of each module instance
    clock,         \* time.time()
    last           \* the connection attempt being answered and what came of it

vars == <<pc, attempt, step, loadResult, model, tokenizer, device, startup_time, clock, last>>

\* ------------------------------------------------------------ requests
\* A text is known by its length in characters and by the number of pieces
\* the SentencePiece tokenizer splits it into (one per character at worst).
Text(l, p) == [len |-> l, pieces |-> p]

Texts ==
    { Text(0, 0), Text(MinTextLen, 1), Text(MaxTextLen, MaxTextLen),
      Text(MaxTextLen + 1, MaxTextLen + 1) }

Styles == {"default", "formal"}
MaxLengths == {MinMaxLength - 1, MinMaxLength, MaxMaxLength, MaxMaxLength + 1}
NumSeqs == {MinNumSeq - 1, MinNumSeq, MaxNumSeq, MaxNumSeq + 1}

\* ParaphraseRequest with only the text given: the Field defaults.
DefaultRequest ==
    [text |-> Text(MinTextLen, 1), style |-> "default",
     max_length |-> MaxMaxLength, num_return_sequences |-> MinNumSeq]

FieldNames == {"text", "style", "max_length", "num_return_sequences"}

\* The request bodies the clients send: the default request and every
\* request that differs from it in one field (boundary values on both sides
\* of each constraint).
Requests ==
    { r \in [text : Texts, style : Styles, max_length : MaxLengths,
             num_return_sequences : NumSeqs] :
        Cardinality({f \in FieldNames : r[f] # DefaultRequest[f]}) <= 1 }

\* The Field constraints of ParaphraseRequest, as pydantic checks them.
ValidRequestNoMaxLength(r) ==
    /\ r.text.len >= MinTextLen
    /\ r.text.len <= MaxTextLen
    /\ r.num_return_sequences >= MinNumSeq
    /\ r.num_return_sequences <= MaxNumSeq

ValidRequest(r) ==
    /\ r.text.len >= MinTextLen
    /\ r.text.len <= MaxTextLen
    /\ r.max_length >= MinMaxLength
    /\ r.max_length <= MaxMaxLength
    /\ r.num_return_sequences >= MinNumSeq
    /\ r.num_return_sequences <= MaxNumSeq

\* A body (a list of requests; one request for POST /paraphrase) passes
\* FastAPI's validation when every item does.
ValidBody(requests) == \A i \in 1..Len(requests) : ValidRequest(requests[i])

Bodies(n) == UNION { [1..k -> Requests] : k \in 0..n }

\* ------------------------------------------------------------ responses
NoRaise == [idx |-> 0, step |-> "none"]
NoContent == [detail |-> ""]

Response(op, requests, status, content, calls, raised) ==
    [op |-> op, answered |-> TRUE, loading |-> FALSE, time |-> clock,
     requests |-> requests, status |-> status, content |-> content,
     calls |-> calls, raised |-> raised]

\* A connection attempt the server never accepted.
Refused(op) ==
    [op |-> op, answered |-> FALSE, loading |-> pc = "load_model", time |-> clock,
     requests |-> <<>>, status |-> 0, content |-> NoContent,
     calls |-> <<>>, raised |-> NoRaise]

NoRequest ==
    [op |-> "none", answered |-> FALSE, loading |-> FALSE, time |-> 0,
     requests |-> <<>>, status |-> 0, content |-> NoContent,
     calls |-> <<>>, raised |-> NoRaise]

\* ------------------------------------------------------------ start-up
\* uvicorn.run("app:app") imports the module named "app" and serves the app
\* object of that module instance; the script itself runs as "__main__".
ScriptModule == "__main__"
ServedModule == "app"
Modules == {ScriptModule, ServedModule}

\* The steps of one attempt of load_model, in the order of the code.
LoadOrderModelFirst == <<"model", "tokenizer", "to", "eval">>

LoadOrder == <<"tokenizer", "model", "to", "eval">>

ModelName(a) == IF a = "primary" THEN PrimaryName ELSE FallbackName

Devices == {"cpu", "cuda"}

Init ==
    /\ pc = "main"
    /\ attempt = "primary"
    /\ step = 1
    /\ loadResult = "none"
    /\ model = None
    /\ tokenizer = None
    /\ device = None
    /\ startup_time = [m \in Modules |-> Unset]
    /\ clock = 0
    /\ last = NoRequest

\* if __name__ == "__main__": app.startup_time = time.time()
MainBlock ==
    /\ pc = "main"
    /\ startup_time' = [startup_time EXCEPT ![ScriptModule] = clock]
    /\ pc' = "uvicorn_run"
    /\ UNCHANGED <<attempt, step, loadResult, model, tokenizer, device, clock, last>>

\* uvicorn.run("app:app", ...): the import runs the module again under the
\* name "app" (fresh globals, a fresh FastAPI object without startup_time),
\* then the lifespan's start-up begins and calls load_model.  load_model's
\* first statement sets the device.
UvicornRun ==
    /\ pc = "uvicorn_run"
    /\ model' = None
    /\ tokenizer' = None
    /\ startup_time' = [startup_time EXCEPT ![ServedModule] = Unset]
    /\ \E d \in Devices : device' = d
    /\ attempt' = "primary"
    /\ step' = 1
    /\ pc' = "load_model"
    /\ UNCHANGED <<loadResult, clock, last>>

\* The effect of one step of load_model that does not raise.  model.to and
\* model.eval change the model object in place, not the globals.
StepEffect(s) ==
    /\ tokenizer' = IF s = "tokenizer" THEN ModelName(attempt) ELSE tokenizer
    /\ model' = IF s = "model" THEN ModelName(attempt) ELSE model

\* One step of the current attempt succeeds.
LoadStepOk ==
    /\ pc = "load_model"
    /\ StepEffect(LoadOrder[step])
    /\ IF step < Len(LoadOrder)
         THEN /\ step' = step + 1
              /\ UNCHANGED <<pc, loadResult>>
         ELSE /\ loadResult' = "True"
              /\ pc' = "startup_done"
              /\ UNCHANGED step
    /\ UNCHANGED <<attempt, device, startup_time, clock, last>>

\* One step of the current attempt raises: the primary attempt's handler
\* starts the fallback attempt, the fallback's handler returns False.
LoadStepRaise ==
    /\ pc = "load_model"
    /\ IF attempt = "primary"
         THEN /\ attempt' = "fallback"
              /\ step' = 1
              /\ UNCHANGED <<pc, loadResult>>
         ELSE /\ loadResult' = "False"
              /\ pc' = "startup_done"
              /\ UNCHANGED <<attempt, step>>
    /\ UNCHANGED <<model, tokenizer, device, startup_time, clock, last>>

\* load_model has returned; the lifespan yields whatever it returned, and
\* only then does uvicorn bind its socket and accept connections.
LifespanYield ==
    /\ pc = "startup_done"
    /\ pc' = "serving"
    /\ UNCHANGED <<attempt, step, loadResult, model, tokenizer, device, startup_time, clock, last>>

Listening == pc = "serving"

\* ----------------------------------------------------------- generation
FailSteps == {"tokenize", "to_device", "generate", "decode"}

\* len(input_ids) for "paraphrase: " + text + " </s>": the tokenizer is
\* called with padding='longest' and return_tensors only.
Tokenize(text) == PrefixPieces + text.pieces + SuffixPieces

TokenizerCall(text) == [fn |-> "tokenizer", n |-> Tokenize(text)]
GenerateCall(r) == [fn |-> "model.generate", n |-> Tokenize(r.text)]
DecodeCall == [fn |-> "tokenizer.decode", n |-> 1]

\* The decoded, stripped first output sequence.
Paraphrase(text) == <<"paraphrase of", text>>

\* generate_paraphrase: fail is the step at which the libraries raise for
\* this call ("none": no step raises).  Calling a tokenizer that is None
\* raises at the first step, a model that is None at model.generate.
\* Every exception becomes HTTPException(500).
generate_paraphrase(r, fail) ==
    LET at == IF tokenizer = None THEN "tokenize"
              ELSE IF fail \in {"tokenize", "to_device"} THEN fail
              ELSE IF model = None THEN "generate"
              ELSE fail
        calls == CASE at \in {"tokenize", "to_device"} -> <<TokenizerCall(r.text)>>
                   [] at = "generate" -> <<TokenizerCall(r.text), GenerateCall(r)>>
                   [] OTHER -> <<TokenizerCall(r.text), GenerateCall(r), DecodeCall>>
    IN  [raised |-> at, calls |-> calls,
         result |-> IF at = "none" THEN Paraphrase(r.text) ELSE None]

\* The ParaphraseResponse both handlers build (processing_time, a
\* difference of two clock readings that no property here reads, is left out).
ParaphraseResponse(r, result) ==
    [result |-> result, original_text |-> r.text, style |-> r.style,
     model_details |-> [model |-> PrimaryName, device |-> device,
                        max_length |-> r.max_length,
                        num_return_sequences |-> r.num_return_sequences]]

ErrorContent(detail) == [detail |-> detail]

\* ------------------------------------------------------------- handlers
\* GET /health
health_check ==
    [status |-> IF model # None THEN "healthy" ELSE "unhealthy",
     is_model_loaded |-> model # None,
     device |-> IF device # None THEN device ELSE "unknown",
     uptime |-> clock - (IF startup_time[ServedModule] # Unset
                           THEN startup_time[ServedModule] ELSE clock)]

\* POST /paraphrase without its model check.
paraphrase_textNoCheck(request, fail) ==
    LET g == generate_paraphrase(request, fail)
    IN  IF g.raised # "none"
          THEN Response("paraphrase", <<request>>, StatusInternal,
                        ErrorContent("Paraphrase generation failed"), g.calls,
                        [idx |-> 1, step |-> g.raised])
          ELSE Response("paraphrase", <<request>>, StatusOK,
                        ParaphraseResponse(request, g.result), g.calls, NoRaise)

\* POST /paraphrase: the handler, entered with a validated request.
paraphrase_text(request, fail) ==
    IF model = None \/ tokenizer = None
      THEN Response("paraphrase", <<request>>, StatusUnavailable,
                    ErrorContent("Model not loaded"), <<>>, NoRaise)
      ELSE LET g == generate_paraphrase(request, fail)
           IN  IF g.raised # "none"
                 THEN Response("paraphrase", <<request>>, StatusInternal,
                               ErrorContent("Paraphrase generation failed"), g.calls,
                               [idx |-> 1, step |-> g.raised])
                 ELSE Response("paraphrase", <<request>>, StatusOK,
                               ParaphraseResponse(request, g.result), g.calls, NoRaise)

\* results.append(...)
AppendResultInFront(results, r) == <<r>> \o results

AppendResult(results, r) == Append(results, r)

\* The loop of batch_paraphrase_texts from item i on; oracle names the call
\* of generate_paraphrase that raises (idx 0: none) and the step it raises at.
RECURSIVE BatchLoop(_, _, _, _, _)
BatchLoop(requests, i, results, calls, oracle) ==
    IF i > Len(requests)
      THEN [raised |-> NoRaise, results |-> results, calls |-> calls]
      ELSE LET g == generate_paraphrase(requests[i],
                        IF oracle.idx = i THEN oracle.step ELSE "none")
           IN  IF g.raised # "none"
                 THEN [raised |-> [idx |-> i, step |-> g.raised],
                       results |-> results, calls |-> calls \o g.calls]
                 ELSE BatchLoop(requests, i + 1,
                                AppendResult(results, ParaphraseResponse(requests[i], g.result)),
                                calls \o g.calls, oracle)

\* The loop with each item's failure kept to the item.
RECURSIVE BatchLoopIsolated(_, _, _, _, _)
BatchLoopIsolated(requests, i, results, calls, oracle) ==
    IF i > Len(requests)
      THEN [raised |-> NoRaise, results |-> results, calls |-> calls]
      ELSE LET g == generate_paraphrase(requests[i],
                        IF oracle.idx = i THEN oracle.step ELSE "none")
           IN  BatchLoopIsolated(requests, i + 1,
                   IF g.raised # "none" THEN results
                   ELSE AppendResult(results, ParaphraseResponse(requests[i], g.result)),
                   calls \o g.calls, oracle)

batch_paraphrase_textsIsolated(requests, oracle) ==
    IF model = None \/ tokenizer = None
      THEN Response("batch", requests, StatusUnavailable,
                    ErrorContent("Model not loaded"), <<>>, NoRaise)
      ELSE LET b == BatchLoopIsolated(requests, 1, <<>>, <<>>, oracle)
           IN  Response("batch", requests, StatusOK,
                        [results |-> b.results, total |-> Len(b.results)],
                        b.calls, oracle)

\* POST /batch-paraphrase: the handler, entered with a validated list.
batch_paraphrase_texts(requests, oracle) ==
    IF model = None \/ tokenizer = None
      THEN Response("batch", requests, StatusUnavailable,
                    ErrorContent("Model not loaded"), <<>>, NoRaise)
      ELSE LET b == BatchLoop(requests, 1, <<>>, <<>>, oracle)
           IN  IF b.raised.idx # 0
                 THEN Response("batch", requests, StatusInternal,
                               ErrorContent("Paraphrase generation failed"),
                               b.calls, b.raised)
                 ELSE Response("batch", requests, StatusOK,
                               [results |-> b.results, total |-> Len(b.results)],
                               b.calls, NoRaise)

\* What FastAPI answers when the body fails the model's Field constraints.
ValidationError(op, requests) ==
    Response(op, requests, StatusUnprocessable,
             ErrorContent("validation error"), <<>>, NoRaise)

\* FastAPI's route for POST /paraphrase: the body is parsed and validated
\* into a ParaphraseRequest before the handler is called.
ParaphraseRouteUnvalidated(request, fail) == paraphrase_text(request, fail)

ParaphraseRoute(request, fail) ==
    IF ValidBody(<<request>>)
      THEN paraphrase_text(request, fail)
      ELSE ValidationError("paraphrase", <<request>>)

\* FastAPI's route for POST /batch-paraphrase: the whole list is validated
\* before the handler is called.
BatchRoute(requests, oracle) ==
    IF ValidBody(requests)
      THEN batch_paraphrase_texts(requests, oracle)
      ELSE ValidationError("batch", requests)

Oracles(n) == {NoRaise} \cup [idx : 1..n, step : FailSteps]

\* ---------------------------------------------------------------- actions
Frame == UNCHANGED <<pc, attempt, step, loadResult, model, tokenizer, device, startup_time, clock>>

\* The event loop runs one handler at a time: a request is taken up once the
\* response before it has been sent.
Idle == last = NoRequest

GetHealth ==
    /\ Listening
    /\ Idle
    /\ last' = Response("health", <<>>, StatusOK, health_check, <<>>, NoRaise)
    /\ Frame

PostParaphrase ==
    /\ Listening
    /\ Idle
    /\ \E r \in Requests, fail \in FailSteps \cup {"none"} :
          last' = ParaphraseRoute(r, fail)
    /\ Frame

PostBatch ==
    /\ Listening
    /\ Idle
    /\ \E requests \in Bodies(MaxBatch) :
         \E oracle \in Oracles(Len(requests)) :
            last' = BatchRoute(requests, oracle)
    /\ Frame

\* A client connects while the server's socket is not bound yet.
ConnectBeforeListening ==
    /\ ~Listening
    /\ Idle
    /\ \E op \in {"health", "paraphrase", "batch"} : last' = Refused(op)
    /\ Frame

\* The response (or the connection error) has reached the client.
ResponseSent ==
    /\ ~Idle
    /\ last' = NoRequest
    /\ Frame

Tick ==
    /\ clock < MaxClock
    /\ clock' = clock + 1
    /\ UNCHANGED <<pc, attempt, step, loadResult, model, tokenizer, device, startup_time, last>>

Next ==
    \/ MainBlock
    \/ UvicornRun
    \/ LoadStepOk
    \/ LoadStepRaise
    \/ LifespanYield
    \/ GetHealth
    \/ PostParaphrase
    \/ PostBatch
    \/ ConnectBeforeListening
    \/ ResponseSent
    \/ Tick

Spec == Init /\ [][Next]_vars

\* =============================================================== claims
\* The response in flight is the server's answer to a request of kind op.
Answered(op) == last.op = op /\ last.answered

\* The handlers' test for "no model is loaded".
Unavailable == model = None \/ tokenizer = None

\* The field constraints a claim speaks of, spelled out on the request.
TextInBounds(r) == r.text.len >= MinTextLen /\ r.text.len <= MaxTextLen
MaxLengthInBounds(r) == r.max_length >= MinMaxLength /\ r.max_length <= MaxMaxLength
NumSeqInBounds(r) == r.num_return_sequences >= MinNumSeq /\ r.num_return_sequences <= MaxNumSeq
InBounds(r) == TextInBounds(r) /\ MaxLengthInBounds(r) /\ NumSeqInBounds(r)

AllInBounds(requests) == \A i \in 1..Len(requests) : InBounds(requests[i])

HasDetail == "detail" \in DOMAIN last.content

\* The calls of fn among the library calls made for the response in flight.
CallsOf(fn) == {i \in 1..Len(last.calls) : last.calls[i].fn = fn}

\* C1: once load_model has returned False, the global model is None, a
\* GET /health answer says "unhealthy" with is_model_loaded false, and a
\* POST /paraphrase with a well-formed body is answered 503.
C1_ReturnFalseLeavesModelNone ==
    loadResult = "False" =>
        /\ model = None
        /\ Answered("health") =>
              /\ last.content.status = "unhealthy"
              /\ ~last.content.is_model_loaded
        /\ Answered("paraphrase") /\ InBounds(last.requests[1]) =>
              last.status = StatusUnavailable

\* C2 (as stated): with no model loaded, every POST /paraphrase is answered
\* 503 with a detail field, whatever its body.
C2_UnavailableAlways503 ==
    Answered("paraphrase") /\ Unavailable =>
        last.status = StatusUnavailable /\ HasDetail

\* C2 (amended): with no model loaded, a POST /paraphrase whose body
\* satisfies the field constraints is answered 503 with the detail "Model
\* not loaded", and one whose body violates them is answered 422 with a
\* detail field, by the validation that runs before the handler.
C2_Unavailable503IfValidElse422 ==
    Answered("paraphrase") /\ Unavailable =>
        /\ HasDetail
        /\ IF InBounds(last.requests[1])
             THEN last.status = StatusUnavailable /\ last.content.detail = "Model not loaded"
             ELSE last.status = StatusUnprocessable

C2_Witness ==
    /\ loadResult = "False"
    /\ Unavailable
    /\ Answered("paraphrase")
    /\ last.status = StatusUnavailable

\* C3: a POST /paraphrase or POST /batch-paraphrase with an item whose text
\* is empty or too long, or whose max_length is out of 10..512, is rejected
\* with no call of the tokenizer or of model.generate at all, also for the
\* valid items in front of the invalid one.
C3_InvalidBodyNeverGenerates ==
    /\ last.answered
    /\ last.op \in {"paraphrase", "batch"}
    /\ \E i \in 1..Len(last.requests) :
          ~TextInBounds(last.requests[i]) \/ ~MaxLengthInBounds(last.requests[i])
    => /\ last.calls = <<>>
       /\ last.status \notin {StatusOK, StatusInternal}

C3_Witness ==
    /\ ~Unavailable
    /\ Answered("batch")
    /\ Len(last.requests) = 2
    /\ InBounds(last.requests[1])
    /\ ~MaxLengthInBounds(last.requests[2])
    /\ last.calls = <<>>
    /\ last.status = StatusUnprocessable

\* C4 (as stated): POST /paraphrase answers 503 if the model is unavailable,
\* 400 if the request fails field validation, 500 if generation fails, and
\* 200 otherwise.
C4_StatusMapping400 ==
    Answered("paraphrase") =>
        /\ Unavailable => last.status = StatusUnavailable
        /\ ~InBounds(last.requests[1]) => last.status = 400
        /\ last.raised.idx # 0 => last.status = StatusInternal
        /\ (~Unavailable /\ InBounds(last.requests[1]) /\ last.raised.idx = 0)
              => last.status = StatusOK

\* C4 (amended): POST /paraphrase answers 422 if the request fails field
\* validation (decided first), else 503 if the model is unavailable, else
\* 500 if generation fails, and 200 otherwise.
C4_StatusMapping422 ==
    Answered("paraphrase") =>
        last.status =
            IF ~InBounds(last.requests[1]) THEN StatusUnprocessable
            ELSE IF Unavailable THEN StatusUnavailable
            ELSE IF last.raised.idx # 0 THEN StatusInternal
            ELSE StatusOK

C4_Witness ==
    /\ ~Unavailable
    /\ Answered("paraphrase")
    /\ ~InBounds(last.requests[1])
    /\ last.status = StatusUnprocessable

\* C5: a batch of n valid requests, sent while the model is loaded and with
\* every generation succeeding, is answered with total = n and n results,
\* the i-th of which answers the i-th request.
C5_BatchKeepsOrder ==
    /\ Answered("batch")
    /\ ~Unavailable
    /\ AllInBounds(last.requests)
    /\ last.raised.idx = 0
    => /\ last.status = StatusOK
       /\ last.content.total = Len(last.requests)
       /\ Len(last.content.results) = Len(last.requests)
       /\ \A i \in 1..Len(last.requests) :
             LET res == last.content.results[i]
                 req == last.requests[i]
             IN  /\ res.original_text = req.text
                 /\ res.style = req.style
                 /\ res.model_details.max_length = req.max_length
                 /\ res.model_details.num_return_sequences = req.num_return_sequences

C5_Witness ==
    /\ Answered("batch")
    /\ last.status = StatusOK
    /\ Len(last.requests) = MaxBatch
    /\ last.requests[1] # last.requests[MaxBatch]
    /\ last.content.total = MaxBatch

\* C6: a failure inside generate_paraphrase, at any of its steps, ends the
\* request with a 500 error and no result; in a batch whose i-th item fails,
\* the results of the items before i are not returned and the items after i
\* are not processed.
C6_FailureIs500WithoutResult ==
    /\ last.answered
    /\ last.op \in {"paraphrase", "batch"}
    /\ last.raised.idx # 0
    => /\ last.status = StatusInternal
       /\ DOMAIN last.content = {"detail"}
       /\ Cardinality(CallsOf("tokenizer")) = last.raised.idx
       /\ Cardinality(CallsOf("model.generate")) <= last.raised.idx

C6_Witness ==
    /\ Answered("batch")
    /\ Len(last.requests) = MaxBatch
    /\ last.raised.idx = 2
    /\ last.raised.step = "decode"
    /\ last.status = StatusInternal

\* C7: a GET /health that arrives while load_model is running is answered
\* without waiting, with status "unhealthy" and is_model_loaded false; and
\* GET /health never ends in an error while loading or serving.
C7_HealthAnsweredWhileLoading ==
    last.op = "health" /\ (last.loading \/ Listening) =>
        /\ last.answered
        /\ last.status = StatusOK
        /\ last.loading =>
              /\ last.content.status = "unhealthy"
              /\ ~last.content.is_model_loaded

\* C8: started as a script, the uptime GET /health returns at time t is t
\* minus the start time the __main__ block recorded.
C8_UptimeSinceRecordedStart ==
    Answered("health") =>
        last.content.uptime = last.time - startup_time[ScriptModule]

\* C9: the token ids passed to model.generate for an accepted text are at
\* most 512, the fixed maximum input length.
C9_InputAtMost512Tokens ==
    \A i \in CallsOf("model.generate") : last.calls[i].n <= 512

\* C10: in every state load_model can reach, model is not None implies
\* tokenizer is not None; so a POST /paraphrase or /batch-paraphrase is
\* answered 503 only in states where GET /health reports "unhealthy".
C10_ModelImpliesTokenizer ==
    /\ model # None => tokenizer # None
    /\ (last.answered /\ last.op \in {"paraphrase", "batch"}
            /\ last.status = StatusUnavailable)
          => health_check.status = "unhealthy"

C10_Witness ==
    /\ loadResult = "False"
    /\ health_check.status = "healthy"
    /\ Answered("paraphrase")
    /\ last.status = StatusOK

====
